---- MODULE Spec2Model ----
(***************************************************************************)
(* Model of the e-commerce API's catalogue, discount and pricing code.     *)
(*                                                                         *)
(* Stores are the MongoDB collections behind the repositories.  A store is *)
(* a function whose DOMAIN is the set of ids that currently have a record. *)
(* Money: basePrice and a discount's value are whole units; every price    *)
(* the pricing loop computes is kept in hundredths of a unit, so that      *)
(* basePrice * (1 - value / 100) is exact: it is basePrice * (100 - value) *)
(* hundredths.  Floating-point rounding is not modelled.                   *)
(***************************************************************************)
EXTENDS Integers, Sequences, FiniteSets, TLC

VARIABLES products, discounts, links, now, nextProduct, nextDiscount, result,
          calls, previous, users, blacklist, otpStore

vars == <<products, discounts, links, now, nextProduct, nextDiscount, result,
          calls, previous, users, blacklist, otpStore>>

\* the collections of the catalogue, and those of the authentication
catalogVars == <<products, discounts, links, nextProduct, nextDiscount>>
authVars == <<users, blacklist, otpStore>>

(***************************************************************************)
(* Bounds of the model.                                                    *)
(***************************************************************************)
\* dates submitted in DTOs range over 0..MaxTime; the clock runs to MaxTime+1
MaxTime == 2
\* usageCount and maxUsageCount stay within 0..MaxUsage
MaxUsage == 1
\* the number of concurrent callers of incrementUsageCount
MaxCalls == 3

\* ids the database hands out, in order; an ObjectId is never handed out twice
ProductIdOrder == <<"p1", "p2">>
DiscountIdOrder == <<"d1", "d2">>
ProductIds == {ProductIdOrder[i] : i \in 1..Len(ProductIdOrder)}
DiscountIds == {DiscountIdOrder[i] : i \in 1..Len(DiscountIdOrder)}

\* inputs of the DTOs
Prices == {0, 100}
Values == {20, 100, 150}
Dates == 0..MaxTime
CodeInputs == {"sale"}
SlugInputs == {"Item"}
SkuInputs == {"sku"}
NoCode == "none"

PERCENTAGE == "percentage"
FIXED_AMOUNT == "fixed_amount"
DiscountTypes == {PERCENTAGE, FIXED_AMOUNT}

\* a discount without maxUsageCount: the field is undefined, which the
\* truthiness test of isDiscountValid treats like 0
NoMax == 0
\* the divisor of a percentage value
Hundred == 100

Max(a, b) == IF a >= b THEN a ELSE b

(***************************************************************************)
(* String conversions, by what they do on the inputs of the model.         *)
(***************************************************************************)
ToUpperCase(s) ==
    CASE s = "sale" -> "SALE"
      [] s = "sku" -> "SKU"
      [] s = "sku2" -> "SKU2"
      [] s = "Other" -> "OTHER"
      [] s = "other" -> "OTHER"
      [] s = "Item" -> "ITEM"
      [] s = "item" -> "ITEM"
      [] OTHER -> s

ToLowerCase(s) ==
    CASE s = "Item" -> "item"
      [] s = "Ann@shop.io" -> "ann@shop.io"
      [] s = "ITEM" -> "item"
      [] s = "Other" -> "other"
      [] s = "OTHER" -> "other"
      [] s = "SKU2" -> "sku2"
      [] s = "SALE" -> "sale"
      [] s = "SKU" -> "sku"
      [] OTHER -> s

(***************************************************************************)
(* Repositories.                                                           *)
(***************************************************************************)
\* BaseRepository.findById on the discount collection: the ids with a record
DiscountExists(id) == id \in DOMAIN discounts

\* DiscountRepository.findByCode: the ids whose stored code is the
\* upper-cased argument
FindByCode(code) == {id \in DOMAIN discounts : discounts[id].code = ToUpperCase(code)}

\* findBySku comparing the argument as it is given
FindBySkuExact(sku) == {id \in DOMAIN products : products[id].sku = sku}

\* ProductRepository.findBySku / findBySlug
FindBySku(sku) == {id \in DOMAIN products : products[id].sku = ToUpperCase(sku)}
FindBySlug(slug) == {id \in DOMAIN products : products[id].slug = ToLowerCase(slug)}

\* the id property of a document fetched with lean(): a lean document is a
\* plain object carrying _id only, so reading .id yields undefined
LeanDocId(id) == "undefined"

\* findByProduct without the productId of the filter
FindByProductAnyProduct(productId) == {l \in links : l.isActive}

\* ProductDiscountRepository.findByProduct: the active links of the product
FindByProduct(productId) ==
    {l \in links : l.productId = productId /\ l.isActive}

\* BaseRepository.findOne({productId, discountId}) on the link collection:
\* the records of the pair, whatever their isActive flag
FindLink(productId, discountId) ==
    {l \in links : l.productId = productId /\ l.discountId = discountId}

\* the _id of a link record
LinkObjectId(l) == l.productId \o "/" \o l.discountId \o "/" \o ToString(l.copy)

\* the link collection without its unique index
UniqueIndexAbsent(productId, discountId) == FALSE

\* the unique index on (productId, discountId) of the link collection: the
\* insertion of a second record for a pair fails with a duplicate key error
UniqueIndexRefuses(productId, discountId) == FindLink(productId, discountId) # {}

\* BaseRepository.delete(id) on the link collection, findByIdAndDelete(id):
\* the sets of records it may delete.  With id undefined the filter is
\* { _id: undefined }: it is sent either as { _id: null }, which matches no
\* record, or without the undefined field, as {}, which matches any one
\* record of the collection.
DeleteLinkTargets(id) ==
    IF id = "undefined" THEN {{}} \cup {{l} : l \in links}
    ELSE {{l} : l \in {k \in links : LinkObjectId(k) = id}}

\* the orders in which a query may return a set of documents
Orders(S) ==
    {f \in [1..Cardinality(S) -> S] : \A i, j \in 1..Cardinality(S) : i # j => f[i] # f[j]}

\* the results findByProduct may return for each product of P
LinkOrders(P) ==
    {f \in [P -> UNION {Orders(FindByProduct(p)) : p \in P}] :
        \A p \in P : f[p] \in Orders(FindByProduct(p))}


\* a store with the record of id set, and with the record of id deleted
Put(store, id, rec) ==
    [x \in (DOMAIN store) \cup {id} |-> IF x = id THEN rec ELSE store[x]]
Drop(store, id) == [x \in (DOMAIN store) \ {id} |-> store[x]]

\* BaseRepository.findById on the discount collection: <<record>>, or <<>>
\* for null
FindDiscountById(id) == IF DiscountExists(id) THEN <<discounts[id]>> ELSE <<>>

(***************************************************************************)
(* ProductsService.calculateProductPricing and mapToResponseDto.           *)
(***************************************************************************)
\* the filter without the test of the dates
PassesPricingFilterNoWindow(fetched, t) ==
    /\ Len(fetched) > 0
    /\ fetched[1].isActive

\* the predicate of validDiscounts = discounts.filter(...), at time t
PassesPricingFilter(fetched, t) ==
    /\ Len(fetched) > 0
    /\ fetched[1].isActive
    /\ fetched[1].startDate <= t
    /\ fetched[1].endDate >= t

RECURSIVE FilterValid(_, _)
FilterValid(fetched, t) ==
    IF fetched = <<>> THEN <<>>
    ELSE (IF PassesPricingFilter(Head(fetched), t) THEN Head(fetched) ELSE <<>>)
         \o FilterValid(Tail(fetched), t)

\* the fixed amount subtracted without the floor at 0
DiscountedPriceNoFloor(basePrice, discount) ==
    IF discount.discountType = PERCENTAGE
    THEN basePrice * (Hundred - discount.value)
    ELSE IF discount.discountType = FIXED_AMOUNT
    THEN Hundred * (basePrice - discount.value)
    ELSE Hundred * basePrice

\* the percentage taken as a fraction: basePrice * (1 - value)
DiscountedPriceUnscaled(basePrice, discount) ==
    IF discount.discountType = PERCENTAGE
    THEN Hundred * basePrice * (1 - discount.value)
    ELSE IF discount.discountType = FIXED_AMOUNT
    THEN Hundred * Max(0, basePrice - discount.value)
    ELSE Hundred * basePrice

\* discountedPrice of one discount, in hundredths
DiscountedPrice(basePrice, discount) ==
    IF discount.discountType = PERCENTAGE
    THEN basePrice * (Hundred - discount.value)
    ELSE IF discount.discountType = FIXED_AMOUNT
    THEN Hundred * Max(0, basePrice - discount.value)
    ELSE Hundred * basePrice

\* the loop keeping the last discount that saves anything
BestStepLastWins(basePrice, acc, discount) ==
    LET discountedPrice == DiscountedPrice(basePrice, discount)
        savings == Hundred * basePrice - discountedPrice
        seen == Append(acc.candidates,
                       [id |-> discount.id, discountType |-> discount.discountType,
                        value |-> discount.value, discountedPrice |-> discountedPrice,
                        savings |-> savings])
    IN  IF savings > 0
        THEN [maxSavings |-> savings, finalPrice |-> discountedPrice,
              bestDiscount |-> <<discount>>, candidates |-> seen]
        ELSE [acc EXCEPT !.candidates = seen]

\* the loop stacking every discount that saves anything
BestStepStacking(basePrice, acc, discount) ==
    LET discountedPrice == DiscountedPrice(basePrice, discount)
        savings == Hundred * basePrice - discountedPrice
        seen == Append(acc.candidates,
                       [id |-> discount.id, discountType |-> discount.discountType,
                        value |-> discount.value, discountedPrice |-> discountedPrice,
                        savings |-> savings])
    IN  IF savings > 0
        THEN [maxSavings |-> acc.maxSavings + savings,
              finalPrice |-> acc.finalPrice - savings,
              bestDiscount |-> Append(acc.bestDiscount, discount), candidates |-> seen]
        ELSE [acc EXCEPT !.candidates = seen]

\* the loop replacing the current best by a discount that saves as much
BestStepLatestOfTies(basePrice, acc, discount) ==
    LET discountedPrice == DiscountedPrice(basePrice, discount)
        savings == Hundred * basePrice - discountedPrice
        seen == Append(acc.candidates,
                       [id |-> discount.id, discountType |-> discount.discountType,
                        value |-> discount.value, discountedPrice |-> discountedPrice,
                        savings |-> savings])
    IN  IF savings >= acc.maxSavings /\ savings > 0
        THEN [maxSavings |-> savings, finalPrice |-> discountedPrice,
              bestDiscount |-> <<discount>>, candidates |-> seen]
        ELSE [acc EXCEPT !.candidates = seen]

\* one iteration of the loop over validDiscounts
BestStep(basePrice, acc, discount) ==
    LET discountedPrice == DiscountedPrice(basePrice, discount)
        savings == Hundred * basePrice - discountedPrice
        seen == Append(acc.candidates,
                       [id |-> discount.id, discountType |-> discount.discountType,
                        value |-> discount.value, discountedPrice |-> discountedPrice,
                        savings |-> savings])
    IN  IF savings > acc.maxSavings
        THEN [maxSavings |-> savings, finalPrice |-> discountedPrice,
              bestDiscount |-> <<discount>>, candidates |-> seen]
        ELSE [acc EXCEPT !.candidates = seen]

RECURSIVE BestLoop(_, _, _)
BestLoop(basePrice, acc, validDiscounts) ==
    IF validDiscounts = <<>> THEN acc
    ELSE BestLoop(basePrice, BestStep(basePrice, acc, Head(validDiscounts)),
                  Tail(validDiscounts))

\* the response leaving finalPrice out when no discount is applied
MapToResponseDtoOmitting(product, finalPrice, appliedDiscounts) ==
    IF Len(appliedDiscounts) > 0
    THEN [id |-> product.id, slug |-> product.slug, sku |-> product.sku,
          basePrice |-> product.basePrice, finalPrice |-> finalPrice,
          appliedDiscounts |-> appliedDiscounts]
    ELSE [id |-> product.id, slug |-> product.slug, sku |-> product.sku,
          basePrice |-> product.basePrice]

\* the response: finalPrice is always set, appliedDiscounts only when the
\* list is not empty (undefined otherwise, which the response leaves out)
MapToResponseDto(product, finalPrice, appliedDiscounts) ==
    IF Len(appliedDiscounts) > 0
    THEN [id |-> product.id, slug |-> product.slug, sku |-> product.sku,
          basePrice |-> product.basePrice, finalPrice |-> finalPrice,
          appliedDiscounts |-> appliedDiscounts]
    ELSE [id |-> product.id, slug |-> product.slug, sku |-> product.sku,
          basePrice |-> product.basePrice, finalPrice |-> finalPrice]

\* calculateProductPricing from the filter on: fetched holds what findById
\* returned for each link of order (productDiscounts).  body is the response;
\* discountFetches lists the calls of discountRepository.findById and
\* candidates the iterations of the loop.  status is ok: nothing is thrown.
ResolvePricing(product, order, fetched, t) ==
    LET basePrice == product.basePrice
        discountIds == [i \in 1..Len(order) |-> order[i].discountId]
        validDiscounts == FilterValid(fetched, t)
        start == [maxSavings |-> 0, finalPrice |-> Hundred * basePrice,
                  bestDiscount |-> <<>>, candidates |-> <<>>]
        best == BestLoop(basePrice, start, validDiscounts)
        appliedDiscounts ==
            [i \in 1..Len(best.bestDiscount) |->
                [id |-> best.bestDiscount[i].id,
                 discountType |-> best.bestDiscount[i].discountType,
                 value |-> best.bestDiscount[i].value]]
    IN  IF Len(validDiscounts) = 0
        THEN [status |-> "ok",
              body |-> MapToResponseDto(product, Hundred * basePrice, <<>>),
              order |-> order, discountFetches |-> discountIds, candidates |-> <<>>]
        ELSE [status |-> "ok",
              body |-> MapToResponseDto(product, best.finalPrice, appliedDiscounts),
              order |-> order, discountFetches |-> discountIds,
              candidates |-> best.candidates]

\* the pricing throwing not-found for a link whose discount is gone
CalculateProductPricingStrict(product, order, t) ==
    LET fetched == [i \in 1..Len(order) |-> FindDiscountById(order[i].discountId)]
    IN  IF \E i \in 1..Len(order) : fetched[i] = <<>>
        THEN [status |-> "NotFound", body |-> [error |-> "NotFound"], order |-> order,
              discountFetches |-> <<>>, candidates |-> <<>>]
        ELSE ResolvePricing(product, order, fetched, t)

\* calculateProductPricing(product) at time t, findByProduct having returned
\* the links as the sequence order
CalculateProductPricing(product, order, t) ==
    IF Len(order) = 0
    THEN [status |-> "ok",
          body |-> MapToResponseDto(product, Hundred * product.basePrice, <<>>),
          order |-> order, discountFetches |-> <<>>, candidates |-> <<>>]
    ELSE ResolvePricing(product, order,
                        [i \in 1..Len(order) |-> FindDiscountById(order[i].discountId)], t)

(***************************************************************************)
(* The outcome of the most recent call: the operation, its argument, the   *)
(* status (ok or the exception thrown), the value returned, the clock when *)
(* it ran and, for a product read, what calculateProductPricing did for    *)
(* each product of the response.                                           *)
(***************************************************************************)
NoTrace == <<>>

Outcome(op, arg, status, body, trace) ==
    [op |-> op, arg |-> arg, status |-> status, body |-> body, at |-> now,
     trace |-> trace]

Failure(op, arg, status) == Outcome(op, arg, status, [error |-> status], NoTrace)

NoOutcome == Outcome("none", [none |-> TRUE], "ok", [none |-> TRUE], NoTrace)

\* the concurrent callers of incrementUsageCount, none of which has called
CallIds == 1..MaxCalls
IdleCall == [pc |-> "idle"]

Init ==
    /\ products = [id \in {} |-> 0]
    /\ discounts = [id \in {} |-> 0]
    /\ links = {}
    /\ now = 0
    /\ nextProduct = 1
    /\ nextDiscount = 1
    /\ result = NoOutcome
    /\ calls = [c \in CallIds |-> IdleCall]
    /\ previous = NoOutcome
    /\ users = [email \in {} |-> 0]
    /\ blacklist = {}
    /\ otpStore = [email \in {} |-> 0]

\* wall-clock time passes, between two calls
Tick ==
    /\ now < MaxTime + 1
    /\ now' = now + 1
    /\ result' = NoOutcome
    /\ previous' = NoOutcome
    /\ UNCHANGED <<products, discounts, links, nextProduct, nextDiscount,
                 calls, authVars>>

(***************************************************************************)
(* ProductsService.                                                        *)
(***************************************************************************)
CreateProductDtos == [slug : SlugInputs, sku : SkuInputs, basePrice : Prices]

\* the create DTOs of the catalogue runs: slugs and SKUs that differ, and that
\* differ in case only
CatalogProductDtos ==
    [slug : {"Item", "item", "Other"}, sku : {"sku", "SKU", "sku2"}, basePrice : {100}]

CreateProduct(dto) ==
    /\ IF FindBySku(dto.sku) # {}
       THEN /\ result' = Outcome("createProduct", dto, "Conflict",
                                 [error |-> "Conflict", field |-> "sku"], NoTrace)
            /\ UNCHANGED <<products, nextProduct>>
       ELSE IF FindBySlug(dto.slug) # {}
       THEN /\ result' = Outcome("createProduct", dto, "Conflict",
                                 [error |-> "Conflict", field |-> "slug"], NoTrace)
            /\ UNCHANGED <<products, nextProduct>>
       ELSE /\ nextProduct <= Len(ProductIdOrder)
            /\ LET id == ProductIdOrder[nextProduct]
                   rec == [id |-> id, slug |-> ToLowerCase(dto.slug),
                           sku |-> ToUpperCase(dto.sku), basePrice |-> dto.basePrice,
                           isActive |-> TRUE]
               IN  /\ products' = Put(products, id, rec)
                   /\ result' = Outcome("createProduct", dto, "ok", rec, NoTrace)
            /\ nextProduct' = nextProduct + 1
    /\ UNCHANGED <<discounts, links, now, nextDiscount,
                 calls, previous, authVars>>

\* the outcome of a read that prices the products in found, in that order
PricedOutcome(op, arg, found, orderOf, single) ==
    LET priced == [i \in 1..Len(found) |->
                      CalculateProductPricing(products[found[i]], orderOf[found[i]], now)]
        bodies == [i \in 1..Len(found) |-> priced[i].body]
        trace == [i \in 1..Len(found) |->
                     [order |-> priced[i].order,
                      discountFetches |-> priced[i].discountFetches,
                      candidates |-> priced[i].candidates]]
    IN  IF \E i \in 1..Len(found) : priced[i].status # "ok"
        THEN Failure(op, arg, "Error")
        ELSE Outcome(op, arg, "ok",
                     IF single THEN bodies[1] ELSE [data |-> bodies], trace)

FindOne(id) ==
    /\ IF id \notin DOMAIN products
       THEN result' = Failure("findOne", [id |-> id], "NotFound")
       ELSE \E orderOf \in LinkOrders({id}) :
                result' = PricedOutcome("findOne", [id |-> id], <<id>>, orderOf, TRUE)
    /\ UNCHANGED <<products, discounts, links, now, nextProduct, nextDiscount,
                 calls, previous, authVars>>

\* a read that redeems the discounts it applies
FindOneAgainRedeeming(id) ==
    /\ result.op \in {"findOne", "findOneAgain"}
    /\ result.arg.id = id
    /\ result.status = "ok"
    /\ \E orderOf \in LinkOrders({id}) :
           /\ result' = PricedOutcome("findOneAgain", [id |-> id], <<id>>, orderOf, TRUE)
           /\ discounts' =
                 [d \in DOMAIN discounts |->
                     IF /\ "appliedDiscounts" \in DOMAIN result'.body
                        /\ \E i \in 1..Len(result'.body.appliedDiscounts) :
                              result'.body.appliedDiscounts[i].id = d
                     THEN [discounts[d] EXCEPT !.usageCount = @ + 1]
                     ELSE discounts[d]]
    /\ previous' = result
    /\ UNCHANGED <<products, links, nextProduct, nextDiscount, now, calls, authVars>>

\* findOne(id) called again, right after a findOne(id) that returned the
\* product: nothing was written and the clock has not moved in between.
\* previous keeps the earlier response.
FindOneAgain(id) ==
    /\ result.op \in {"findOne", "findOneAgain"}
    /\ result.arg.id = id
    /\ result.status = "ok"
    /\ \E orderOf \in LinkOrders({id}) :
           result' = PricedOutcome("findOneAgain", [id |-> id], <<id>>, orderOf, TRUE)
    /\ previous' = result
    /\ UNCHANGED <<catalogVars, now, calls, authVars>>

FindBySlugRead(slug) ==
    /\ IF FindBySlug(slug) = {}
       THEN result' = Failure("findBySlug", [slug |-> slug], "NotFound")
       ELSE \E id \in FindBySlug(slug) : \E orderOf \in LinkOrders({id}) :
                result' = PricedOutcome("findBySlug", [slug |-> slug], <<id>>, orderOf, TRUE)
    /\ UNCHANGED <<products, discounts, links, now, nextProduct, nextDiscount,
                 calls, previous, authVars>>

\* the active products, newest first (the default sort, createdAt descending)
RECURSIVE NewestFirst(_)
NewestFirst(n) ==
    IF n = 0 THEN <<>>
    ELSE (IF ProductIdOrder[n] \in DOMAIN products /\ products[ProductIdOrder[n]].isActive
          THEN <<ProductIdOrder[n]>> ELSE <<>>) \o NewestFirst(n - 1)

\* findAll with the first page holding every active product; search and
\* findByCategory price the products they select in the same way
FindAll ==
    /\ \E orderOf \in LinkOrders(DOMAIN products) :
           result' = PricedOutcome("findAll", [page |-> 1], NewestFirst(Len(ProductIdOrder)),
                                   orderOf, FALSE)
    /\ UNCHANGED <<products, discounts, links, now, nextProduct, nextDiscount,
                 calls, previous, authVars>>

\* the update DTOs of a product: every field is optional, there is no sku
UpdateProductDtos ==
    {[basePrice |-> p] : p \in Prices} \cup {[slug |-> s] : s \in SlugInputs}

\* the fields findByIdAndUpdate sets: those of the DTO, the slug lower-cased
ApplyProductUpdate(rec, dto) ==
    [f \in DOMAIN rec |->
        IF f \in DOMAIN dto
        THEN (IF f = "slug" THEN ToLowerCase(dto[f]) ELSE dto[f])
        ELSE rec[f]]

UpdateProduct(id, dto) ==
    /\ IF id \notin DOMAIN products
       THEN /\ result' = Failure("updateProduct", [id |-> id, dto |-> dto], "NotFound")
            /\ UNCHANGED products
       ELSE IF /\ "slug" \in DOMAIN dto
               /\ \E existingBySlug \in FindBySlug(dto.slug) : LeanDocId(existingBySlug) # id
       THEN /\ result' = Failure("updateProduct", [id |-> id, dto |-> dto], "Conflict")
            /\ UNCHANGED products
       ELSE /\ products' = Put(products, id, ApplyProductUpdate(products[id], dto))
            /\ result' = Outcome("updateProduct", [id |-> id, dto |-> dto], "ok",
                                 products'[id], NoTrace)
    /\ UNCHANGED <<discounts, links, now, nextProduct, nextDiscount,
                 calls, previous, authVars>>

RemoveProduct(id) ==
    /\ IF id \notin DOMAIN products
       THEN /\ result' = Failure("removeProduct", [id |-> id], "NotFound")
            /\ UNCHANGED products
       ELSE /\ products' = Drop(products, id)
            /\ result' = Outcome("removeProduct", [id |-> id], "ok",
                                 [deleted |-> TRUE], NoTrace)
    /\ UNCHANGED <<discounts, links, now, nextProduct, nextDiscount,
                 calls, previous, authVars>>

(***************************************************************************)
(* DiscountsService and DiscountRepository.                                *)
(***************************************************************************)
\* the create DTOs of the pricing runs: every type and value, one window
\* that leaves time before and after it
CreateDiscountDtos ==
    [code : {NoCode}, discountType : DiscountTypes, value : Values,
     startDate : {1}, endDate : {MaxTime}, maxUsageCount : {NoMax}]

\* the create DTOs of the usage runs: with and without a usage cap
CappedDiscountDtos ==
    [code : {NoCode}, discountType : {PERCENTAGE}, value : {20},
     startDate : {1}, endDate : {MaxTime}, maxUsageCount : {NoMax} \cup (1..MaxUsage)]

\* the create DTOs of the date runs: every pair of dates, with and without a
\* code
DatedDiscountDtos ==
    [code : CodeInputs \cup {NoCode}, discountType : {PERCENTAGE}, value : {20},
     startDate : Dates, endDate : Dates, maxUsageCount : {NoMax}]

\* the create DTO of the link runs: one discount in its window from time 0
LinkedDiscountDtos ==
    [code : {NoCode}, discountType : {PERCENTAGE}, value : {20},
     startDate : {0}, endDate : {MaxTime}, maxUsageCount : {NoMax}]

\* the test letting equal dates through
DateOrderViolatedStrict(startDate, endDate) == startDate > endDate

\* startDate >= endDate, the test before 'End date must be after start date'
DateOrderViolated(startDate, endDate) == startDate >= endDate

CreateDiscount(dto) ==
    /\ IF dto.code # NoCode /\ FindByCode(dto.code) # {}
       THEN /\ result' = Failure("createDiscount", dto, "Conflict")
            /\ UNCHANGED <<discounts, nextDiscount>>
       ELSE IF DateOrderViolated(dto.startDate, dto.endDate)
       THEN /\ result' = Failure("createDiscount", dto, "BadRequest")
            /\ UNCHANGED <<discounts, nextDiscount>>
       ELSE /\ nextDiscount <= Len(DiscountIdOrder)
            /\ LET id == DiscountIdOrder[nextDiscount]
                   rec == [id |-> id,
                           code |-> IF dto.code = NoCode THEN NoCode
                                    ELSE ToUpperCase(dto.code),
                           discountType |-> dto.discountType, value |-> dto.value,
                           startDate |-> dto.startDate, endDate |-> dto.endDate,
                           isActive |-> TRUE, maxUsageCount |-> dto.maxUsageCount,
                           usageCount |-> 0]
               IN  /\ discounts' = Put(discounts, id, rec)
                   /\ result' = Outcome("createDiscount", dto, "ok", rec, NoTrace)
            /\ nextDiscount' = nextDiscount + 1
    /\ UNCHANGED <<products, links, now, nextProduct,
                 calls, previous, authVars>>

\* the update DTOs (every field is optional) of the pricing runs
UpdateDiscountDtos == {[isActive |-> b] : b \in BOOLEAN}

\* the update DTOs of the date runs: startDate, endDate, both, or neither
DatedUpdateDtos ==
    {[startDate |-> s] : s \in Dates}
    \cup {[endDate |-> e] : e \in Dates}
    \cup {[startDate |-> s, endDate |-> e] : s \in Dates, e \in Dates}
    \cup {[code |-> c] : c \in CodeInputs}
    \cup {[isActive |-> b] : b \in BOOLEAN}

\* the fields findByIdAndUpdate sets: those of the DTO, the code upper-cased
ApplyUpdate(rec, dto) ==
    [f \in DOMAIN rec |->
        IF f \in DOMAIN dto
        THEN (IF f = "code" THEN ToUpperCase(dto[f]) ELSE dto[f])
        ELSE rec[f]]

UpdateDiscount(id, dto) ==
    /\ IF ~DiscountExists(id)
       THEN /\ result' = Failure("updateDiscount", [id |-> id, dto |-> dto], "NotFound")
            /\ UNCHANGED discounts
       ELSE IF /\ "code" \in DOMAIN dto
               /\ \E existing \in FindByCode(dto.code) : LeanDocId(existing) # id
       THEN /\ result' = Failure("updateDiscount", [id |-> id, dto |-> dto], "Conflict")
            /\ UNCHANGED discounts
       ELSE IF /\ "startDate" \in DOMAIN dto
               /\ "endDate" \in DOMAIN dto
               /\ DateOrderViolated(dto.startDate, dto.endDate)
       THEN /\ result' = Failure("updateDiscount", [id |-> id, dto |-> dto], "BadRequest")
            /\ UNCHANGED discounts
       ELSE /\ discounts' = Put(discounts, id, ApplyUpdate(discounts[id], dto))
            /\ result' = Outcome("updateDiscount", [id |-> id, dto |-> dto], "ok",
                                 discounts'[id], NoTrace)
    /\ UNCHANGED <<products, links, now, nextProduct, nextDiscount,
                 calls, previous, authVars>>

\* remove deleting the links of the discount with it
RemoveDiscountCascading(id) ==
    /\ IF ~DiscountExists(id)
       THEN /\ result' = Failure("removeDiscount", [id |-> id], "NotFound")
            /\ UNCHANGED <<discounts, links>>
       ELSE /\ discounts' = Drop(discounts, id)
            /\ links' = {l \in links : l.discountId # id}
            /\ result' = Outcome("removeDiscount", [id |-> id], "ok",
                                 [deleted |-> TRUE], NoTrace)
    /\ UNCHANGED <<products, now, nextProduct, nextDiscount,
                 calls, previous, authVars>>

RemoveDiscount(id) ==
    /\ IF ~DiscountExists(id)
       THEN /\ result' = Failure("removeDiscount", [id |-> id], "NotFound")
            /\ UNCHANGED discounts
       ELSE /\ discounts' = Drop(discounts, id)
            /\ result' = Outcome("removeDiscount", [id |-> id], "ok",
                                 [deleted |-> TRUE], NoTrace)
    /\ UNCHANGED <<products, links, now, nextProduct, nextDiscount,
                 calls, previous, authVars>>

\* DiscountsService.findOne
FindOneDiscount(id) ==
    /\ IF ~DiscountExists(id)
       THEN result' = Failure("findOneDiscount", [id |-> id], "NotFound")
       ELSE result' = Outcome("findOneDiscount", [id |-> id], "ok", discounts[id], NoTrace)
    /\ UNCHANGED <<products, discounts, links, now, nextProduct, nextDiscount,
                 calls, previous, authVars>>

\* the record linkProductToDiscount inserts; copy tells the records of one
\* pair apart: it counts the records the pair has once this one is stored
NewLink(productId, discountId) ==
    [productId |-> productId, discountId |-> discountId, isActive |-> TRUE,
     copy |-> Cardinality(FindLink(productId, discountId)) + 1]

\* linkToProduct without the lookup of the discount
LinkToProductUnchecked(dto) ==
    /\ IF UniqueIndexRefuses(dto.productId, dto.discountId)
       THEN /\ result' = Failure("linkToProduct", dto, "DuplicateKey")
            /\ UNCHANGED links
       ELSE /\ links' = links \cup {NewLink(dto.productId, dto.discountId)}
            /\ result' = Outcome("linkToProduct", dto, "ok", [linked |-> TRUE], NoTrace)
    /\ UNCHANGED <<products, discounts, now, nextProduct, nextDiscount,
                 calls, previous, authVars>>

\* linkToProduct: the discount must exist, the product is not looked up; the
\* unique index on (productId, discountId) refuses a second link of a pair
LinkToProduct(dto) ==
    /\ IF ~DiscountExists(dto.discountId)
       THEN /\ result' = Failure("linkToProduct", dto, "NotFound")
            /\ UNCHANGED links
       ELSE IF UniqueIndexRefuses(dto.productId, dto.discountId)
       THEN /\ result' = Failure("linkToProduct", dto, "DuplicateKey")
            /\ UNCHANGED links
       ELSE /\ links' = links \cup {NewLink(dto.productId, dto.discountId)}
            /\ result' = Outcome("linkToProduct", dto, "ok", [linked |-> TRUE], NoTrace)
    /\ UNCHANGED <<products, discounts, now, nextProduct, nextDiscount,
                 calls, previous, authVars>>

\* unlinkFromProduct: findOne returns a lean record of the pair, whose id
\* property is undefined, and delete is called with that id; the repository
\* returns false, and the service throws not-found, when there is no record
\* of the pair or when delete removed nothing
UnlinkFromProduct(productId, discountId) ==
    /\ LET arg == [productId |-> productId, discountId |-> discountId]
       IN  IF FindLink(productId, discountId) = {}
           THEN /\ result' = Failure("unlinkFromProduct", arg, "NotFound")
                /\ UNCHANGED links
           ELSE \E link \in FindLink(productId, discountId) :
                \E deleted \in DeleteLinkTargets(LeanDocId(link)) :
                    /\ links' = links \ deleted
                    /\ result' = IF deleted = {}
                                 THEN Failure("unlinkFromProduct", arg, "NotFound")
                                 ELSE Outcome("unlinkFromProduct", arg, "ok",
                                              [unlinked |-> TRUE], NoTrace)
    /\ UNCHANGED <<products, discounts, now, nextProduct, nextDiscount,
                 calls, previous, authVars>>

\* DiscountRepository.incrementUsageCount: $inc of usageCount by 1
IncrementUsageCount(id) ==
    /\ IF ~DiscountExists(id)
       THEN /\ result' = Failure("incrementUsageCount", [id |-> id], "null")
            /\ UNCHANGED discounts
       ELSE /\ discounts[id].usageCount < MaxUsage
            /\ discounts' = [discounts EXCEPT ![id].usageCount = @ + 1]
            /\ result' = Outcome("incrementUsageCount", [id |-> id], "ok",
                                 discounts'[id], NoTrace)
    /\ UNCHANGED <<products, links, now, nextProduct, nextDiscount,
                 calls, previous, authVars>>

\* a read-modify-write of the count: what the caller read, plus one
ReadModifyWrite(stored, read) == read + 1

\* { $inc: { usageCount: 1 } }: the database adds one to the count it holds,
\* whatever the caller had read
IncUsageCount(stored, read) == stored + 1

\* caller c calls incrementUsageCount(id): the findByIdAndUpdate command is
\* sent to the database.  read notes the usageCount stored at that time; the
\* command does not carry it.
CallIncrementUsageCount(c, id) ==
    /\ calls[c].pc = "idle"
    /\ calls' = [calls EXCEPT ![c] =
                    [pc |-> "sent", id |-> id,
                     read |-> IF DiscountExists(id) THEN discounts[id].usageCount ELSE 0]]
    /\ UNCHANGED <<catalogVars, now, result, previous, authVars>>

\* the database executes the command of caller c, as one operation on the
\* record; the call returns the updated record, or null without a record
ExecuteIncrement(c) ==
    /\ calls[c].pc = "sent"
    /\ LET id == calls[c].id
       IN  IF ~DiscountExists(id)
           THEN /\ calls' = [calls EXCEPT ![c].pc = "null"]
                /\ result' = Failure("incrementUsageCount", [id |-> id], "null")
                /\ UNCHANGED discounts
           ELSE /\ discounts' = [discounts EXCEPT ![id].usageCount =
                                     IncUsageCount(@, calls[c].read)]
                /\ calls' = [calls EXCEPT ![c].pc = "done"]
                /\ result' = Outcome("incrementUsageCount", [id |-> id], "ok",
                                     discounts'[id], NoTrace)
    /\ UNCHANGED <<products, links, now, nextProduct, nextDiscount, previous, authVars>>

\* the checks of isDiscountValid without the one of the usage cap
DiscountValidIgnoringUsage(fetched, t) ==
    IF Len(fetched) = 0 \/ ~fetched[1].isActive THEN FALSE
    ELSE IF fetched[1].startDate > t \/ fetched[1].endDate < t THEN FALSE
    ELSE TRUE

\* what isDiscountValid returns at time t, findById having returned fetched
DiscountValid(fetched, t) ==
    IF Len(fetched) = 0 \/ ~fetched[1].isActive THEN FALSE
    ELSE IF fetched[1].startDate > t \/ fetched[1].endDate < t THEN FALSE
    ELSE IF /\ fetched[1].maxUsageCount # NoMax
            /\ fetched[1].usageCount >= fetched[1].maxUsageCount THEN FALSE
    ELSE TRUE

\* DiscountRepository.isDiscountValid
IsDiscountValid(id) ==
    /\ result' = Outcome("isDiscountValid", [id |-> id], "ok",
                         [valid |-> DiscountValid(FindDiscountById(id), now)], NoTrace)
    /\ UNCHANGED <<catalogVars, now, calls, previous, authVars>>

LinkDiscountDtos == [productId : ProductIds, discountId : DiscountIds]

(***************************************************************************)
(* AuthService, JwtAuthService and the JWT strategy.  The clock counts     *)
(* seconds, the unit of the iat and exp claims of a token.                 *)
(***************************************************************************)
EmailInputs == {"Ann@shop.io", "ann@shop.io"}
PasswordInputs == {"Secret1!", "Wrong22!"}
UserIdOrder == <<"u1">>
USER == "user"

\* the refreshToken field of a user that holds no token: never set, or set
\* to null by logout
NoToken == [kind |-> "none"]

\* jwt.accessExpiration and jwt.refreshExpiration as configured, in seconds
AccessExpiration == 2
RefreshExpiration == 3

\* jwtService.sign(payload, {secret, expiresIn}) at time t: the string is
\* determined by the payload, the secret (one per kind) and the iat and exp
\* claims, so two tokens of a kind signed for a user in one second are equal
SignToken(kind, user, t) ==
    [kind |-> kind, sub |-> user.id, email |-> user.email, role |-> user.role,
     iat |-> t,
     exp |-> t + (IF kind = "access" THEN AccessExpiration ELSE RefreshExpiration)]

GenerateAccessToken(user, t) == SignToken("access", user, t)
GenerateRefreshToken(user, t) == SignToken("refresh", user, t)

\* jwtService.verify(token, {secret}) at time t with the secret of kind
VerifyToken(kind, token, t) ==
    IF token.kind # kind THEN "InvalidToken"
    ELSE IF t >= token.exp THEN "TokenExpired"
    ELSE "ok"

\* UserRepository.findByEmail: the stored emails equal to the lower-cased
\* argument
FindByEmail(email) == {e \in DOMAIN users : users[e].email = ToLowerCase(email)}

\* AuthRepository.isTokenBlacklisted
IsTokenBlacklisted(token) == \E entry \in blacklist : entry.token = token

RegisterDtos == [email : EmailInputs, password : {"Secret1!"}]
LoginDtos == [email : EmailInputs, password : PasswordInputs]

\* the tokens a client can present at time t: those the service can have
\* signed for a user by then
TokenInputs(t) ==
    {SignToken(kind, [id |-> UserIdOrder[i], email |-> ToLowerCase(e), role |-> USER], iat) :
        kind \in {"access", "refresh"}, i \in 1..Len(UserIdOrder), e \in EmailInputs,
        iat \in 0..t}

\* register: usersService.create, sendVerificationEmail (emailSent is what
\* the email service returns), generateTokens, updateRefreshToken
Register(dto, emailSent) ==
    /\ IF FindByEmail(dto.email) # {}
       THEN /\ result' = Failure("register", dto, "Conflict")
            /\ UNCHANGED users
       ELSE /\ Cardinality(DOMAIN users) < Len(UserIdOrder)
            /\ LET email == ToLowerCase(dto.email)
                   user == [id |-> UserIdOrder[Cardinality(DOMAIN users) + 1],
                            email |-> email, password |-> dto.password, role |-> USER,
                            isActive |-> TRUE, emailVerified |-> FALSE,
                            refreshToken |-> NoToken]
                   tokens == [accessToken |-> GenerateAccessToken(user, now),
                              refreshToken |-> GenerateRefreshToken(user, now)]
               IN  IF ~emailSent
                   THEN /\ users' = Put(users, email, user)
                        /\ result' = Failure("register", dto, "BadRequest")
                   ELSE /\ users' = Put(users, email,
                                        [user EXCEPT !.refreshToken = tokens.refreshToken])
                        /\ result' = Outcome("register", dto, "ok", tokens, NoTrace)
    /\ UNCHANGED <<catalogVars, now, calls, previous, blacklist, otpStore>>

\* login: validateUser, the active flag, the two tokens, updateRefreshToken
Login(dto) ==
    /\ IF \A e \in FindByEmail(dto.email) : users[e].password # dto.password
       THEN /\ result' = Failure("login", dto, "InvalidCredentials")
            /\ UNCHANGED users
       ELSE \E e \in FindByEmail(dto.email) :
               IF ~users[e].isActive
               THEN /\ result' = Failure("login", dto, "Unauthorized")
                    /\ UNCHANGED users
               ELSE LET tokens == [accessToken |-> GenerateAccessToken(users[e], now),
                                   refreshToken |-> GenerateRefreshToken(users[e], now)]
                    IN  /\ users' = [users EXCEPT ![e].refreshToken = tokens.refreshToken]
                        /\ result' = Outcome("login", dto, "ok", tokens, NoTrace)
    /\ UNCHANGED <<catalogVars, now, calls, previous, blacklist, otpStore>>

\* refreshToken: verifyRefreshToken, the user of payload.email, the stored
\* token compared with the presented one, then the rotation
RefreshToken(refreshToken) ==
    /\ LET arg == [token |-> refreshToken]
           verified == VerifyToken("refresh", refreshToken, now)
       IN  IF verified # "ok"
           THEN /\ result' = Failure("refreshToken", arg, verified)
                /\ UNCHANGED users
           ELSE IF \A e \in FindByEmail(refreshToken.email) : ~users[e].isActive
           THEN /\ result' = Failure("refreshToken", arg, "Unauthorized")
                /\ UNCHANGED users
           ELSE \E e \in FindByEmail(refreshToken.email) :
                   IF \/ users[e].refreshToken = NoToken
                      \/ users[e].refreshToken # refreshToken
                   THEN /\ result' = Failure("refreshToken", arg, "Unauthorized")
                        /\ UNCHANGED users
                   ELSE LET tokens ==
                                [accessToken |-> GenerateAccessToken(users[e], now),
                                 refreshToken |-> GenerateRefreshToken(users[e], now)]
                        IN  /\ users' = [users EXCEPT
                                            ![e].refreshToken = tokens.refreshToken]
                            /\ result' = Outcome("refreshToken", arg, "ok", tokens, NoTrace)
    /\ UNCHANGED <<catalogVars, now, calls, previous, blacklist, otpStore>>

\* logout that leaves the stored refresh token in place
LogoutKeepingRefreshToken(token) ==
    /\ LET arg == [token |-> token]
           verified == VerifyToken("access", token, now)
       IN  IF verified # "ok"
           THEN /\ result' = Failure("logout", arg, "Unauthorized")
                /\ UNCHANGED <<users, blacklist>>
           ELSE IF IsTokenBlacklisted(token)
           THEN /\ result' = Failure("logout", arg, "InvalidToken")
                /\ UNCHANGED <<users, blacklist>>
           ELSE IF \A e \in FindByEmail(token.email) : ~users[e].isActive
           THEN /\ result' = Failure("logout", arg, "Unauthorized")
                /\ UNCHANGED <<users, blacklist>>
           ELSE \E e \in FindByEmail(token.email) :
                   /\ blacklist' = blacklist \cup
                         {[token |-> token, userId |-> users[e].id,
                           expiresAt |-> token.exp, reason |-> "logout"]}
                   /\ UNCHANGED users
                   /\ result' = Outcome("logout", arg, "ok", [success |-> TRUE], NoTrace)
    /\ UNCHANGED <<catalogVars, now, calls, previous, otpStore>>

\* POST auth/logout: the JWT guard (signature and expiry of the bearer
\* token, the blacklist, the user of payload.email), then logout: the token
\* is blacklisted until its expiry and the stored refresh token set to null
Logout(token) ==
    /\ LET arg == [token |-> token]
           verified == VerifyToken("access", token, now)
       IN  IF verified # "ok"
           THEN /\ result' = Failure("logout", arg, "Unauthorized")
                /\ UNCHANGED <<users, blacklist>>
           ELSE IF IsTokenBlacklisted(token)
           THEN /\ result' = Failure("logout", arg, "InvalidToken")
                /\ UNCHANGED <<users, blacklist>>
           ELSE IF \A e \in FindByEmail(token.email) : ~users[e].isActive
           THEN /\ result' = Failure("logout", arg, "Unauthorized")
                /\ UNCHANGED <<users, blacklist>>
           ELSE \E e \in FindByEmail(token.email) :
                   /\ blacklist' = blacklist \cup
                         {[token |-> token, userId |-> users[e].id,
                           expiresAt |-> token.exp, reason |-> "logout"]}
                   /\ users' = [users EXCEPT ![e].refreshToken = NoToken]
                   /\ result' = Outcome("logout", arg, "ok", [success |-> TRUE], NoTrace)
    /\ UNCHANGED <<catalogVars, now, calls, previous, otpStore>>

\* registration, login, refresh and logout while time passes
NextAuth ==
    \/ Tick
    \/ \E dto \in RegisterDtos : \E emailSent \in BOOLEAN : Register(dto, emailSent)
    \/ \E dto \in LoginDtos : Login(dto)
    \/ \E token \in TokenInputs(now) : RefreshToken(token)
    \/ \E token \in TokenInputs(now) : Logout(token)

SpecAuth == Init /\ [][NextAuth]_vars

\* the position of the clock within its second, in milliseconds: blacklist
\* entries carry a Date, and the cleanup compares it with new Date()
Millis == {0, 500}

\* a guarded request carrying the bearer token: passport-jwt verifies the
\* signature and the expiry, then JwtStrategy.validate checks the blacklist
\* and the user of payload.email
Validate(token) ==
    /\ LET arg == [token |-> token]
           verified == VerifyToken("access", token, now)
       IN  IF verified # "ok"
           THEN result' = Failure("validate", arg, "Unauthorized")
           ELSE IF IsTokenBlacklisted(token)
           THEN result' = Failure("validate", arg, "InvalidToken")
           ELSE IF \A e \in FindByEmail(token.email) : ~users[e].isActive
           THEN result' = Failure("validate", arg, "Unauthorized")
           ELSE \E e \in FindByEmail(token.email) :
                   result' = Outcome("validate", arg, "ok",
                                     [id |-> users[e].id, email |-> users[e].email,
                                      role |-> users[e].role], NoTrace)
    /\ UNCHANGED <<catalogVars, now, calls, previous, authVars>>

\* deleteMany that ignores the expiry of the entries
DeleteEveryToken(entries, t, ms) == {}

\* TokenBlacklistRepository.deleteExpiredTokens at time t seconds and ms
\* milliseconds: what is left of the entries, those whose expiresAt (exp
\* seconds) is not before new Date()
DeleteExpiredTokens(entries, t, ms) ==
    {entry \in entries : ~(entry.expiresAt * 1000 < t * 1000 + ms)}

\* TokenCleanupService.cleanupExpiredTokens, the hourly job
CleanupExpiredTokens(ms) ==
    /\ blacklist' = DeleteExpiredTokens(blacklist, now, ms)
    /\ UNCHANGED <<catalogVars, now, calls, previous, users, otpStore, result>>

\* TokenCleanupService.cleanupExpiredTokensManually, behind
\* POST auth/admin/cleanup-tokens
CleanupExpiredTokensManually(ms) ==
    /\ blacklist' = DeleteExpiredTokens(blacklist, now, ms)
    /\ result' = Outcome("cleanupExpiredTokens", [ms |-> ms], "ok",
                         [deletedCount |-> Cardinality(blacklist \ blacklist')], NoTrace)
    /\ UNCHANGED <<catalogVars, now, calls, previous, users, otpStore>>

\* sessions: registration, login, logout, guarded requests and the cleanup
\* of the blacklist while time passes
NextSession ==
    \/ Tick
    \/ \E dto \in RegisterDtos : \E emailSent \in BOOLEAN : Register(dto, emailSent)
    \/ \E dto \in LoginDtos : Login(dto)
    \/ \E token \in TokenInputs(now) : Logout(token)
    \/ \E token \in TokenInputs(now) : Validate(token)
    \/ \E ms \in Millis : CleanupExpiredTokens(ms)
    \/ \E ms \in Millis : CleanupExpiredTokensManually(ms)

SpecSession == Init /\ [][NextSession]_vars

(***************************************************************************)
(* RolesGuard and the @Roles metadata of the controllers.                  *)
(***************************************************************************)
ADMIN == "admin"
UserRoles == {USER, ADMIN}

\* ROLE_HIERARCHY
ROLE_HIERARCHY == [role \in UserRoles |-> IF role = USER THEN 1 ELSE 2]

\* what the reflector returns for a handler without @Roles, and the request
\* without a user
NoRoles == <<"undefined">>
NoUser == [id |-> "undefined", email |-> "undefined", role |-> "undefined"]

\* the users a request can carry once the JWT guard has run
RequestUsers ==
    {NoUser} \cup {[id |-> UserIdOrder[1], email |-> ToLowerCase(e), role |-> role] :
                      e \in EmailInputs, role \in UserRoles}

\* the handlers of DiscountsController and ProductsController that the
\* guards cover with their @Roles metadata, those of AuthController marked
\* @AdminOnly, and the lists @Roles can declare
AdminOnly == <<ADMIN>>
Handlers ==
    {[name |-> n, roles |-> AdminOnly, adminOnly |-> TRUE] :
        n \in {"discounts.create", "discounts.findAll", "discounts.update",
               "discounts.remove", "discounts.linkToProduct",
               "discounts.unlinkFromProduct", "discounts.getProductsByDiscount",
               "products.create", "products.update", "products.remove",
               "auth.cleanupExpiredTokens", "auth.getBlacklistStats"}}
    \cup {[name |-> n, roles |-> NoRoles, adminOnly |-> FALSE] :
        n \in {"discounts.findActive", "discounts.findOne"}}
    \cup {[name |-> "Roles", roles |-> rs, adminOnly |-> FALSE] :
        rs \in {<<USER>>, <<USER, ADMIN>>, <<ADMIN, USER>>}}

\* hasRequiredRole with the comparison of the levels reversed
HasRequiredRoleReversed(userRole, requiredRoles) ==
    \/ \E i \in 1..Len(requiredRoles) : requiredRoles[i] = userRole
    \/ \E i \in 1..Len(requiredRoles) :
          ROLE_HIERARCHY[userRole] <= ROLE_HIERARCHY[requiredRoles[i]]

\* RolesGuard.hasRequiredRole: the exact role, or a level at least that of
\* one of the required roles
HasRequiredRole(userRole, requiredRoles) ==
    \/ \E i \in 1..Len(requiredRoles) : requiredRoles[i] = userRole
    \/ \E i \in 1..Len(requiredRoles) :
          ROLE_HIERARCHY[userRole] >= ROLE_HIERARCHY[requiredRoles[i]]

\* RolesGuard.canActivate: true, or the ForbiddenException
CanActivate(requiredRoles, user) ==
    IF requiredRoles = NoRoles THEN "ok"
    ELSE IF user = NoUser THEN "Forbidden"
    ELSE IF ~HasRequiredRole(user.role, requiredRoles) THEN "Forbidden"
    ELSE "ok"

\* the RolesGuard of common/guards, which DiscountsController and
\* ProductsController use: the admin-role requirement of their endpoints
CommonRolesGuard(requiredRoles, user) == CanActivate(requiredRoles, user)

\* a request for a handler that reaches the roles guard
Activate(handler, user) ==
    /\ LET status == IF handler.name \in {"auth.cleanupExpiredTokens",
                                          "auth.getBlacklistStats", "Roles"}
                     THEN CanActivate(handler.roles, user)
                     ELSE CommonRolesGuard(handler.roles, user)
       IN  result' = Outcome("canActivate", [handler |-> handler, user |-> user],
                             status, [granted |-> status = "ok"], NoTrace)
    /\ UNCHANGED <<catalogVars, now, calls, previous, authVars>>

\* requests of users of either role, and of nobody, for the handlers
NextRoles ==
    \/ Tick
    \/ \E handler \in Handlers : \E user \in RequestUsers : Activate(handler, user)

SpecRoles == Init /\ [][NextRoles]_vars

(***************************************************************************)
(* Concurrent requests of AuthService.refreshToken.  A request reads the   *)
(* user (findByEmail), checks the stored token and signs the new pair in   *)
(* one step, and its updateRefreshToken runs in a later step: the two are  *)
(* separate commands to the database.  A caller records the requests that  *)
(* were between their two steps when its own was received.                 *)
(***************************************************************************)
\* refreshToken up to the await of updateRefreshToken
CallRefreshToken(c, refreshToken) ==
    /\ calls[c].pc = "idle"
    /\ LET arg == [token |-> refreshToken]
           verified == VerifyToken("refresh", refreshToken, now)
           inFlight == {k \in CallIds : calls[k].pc = "writing"}
           refused(status) ==
               /\ calls' = [calls EXCEPT ![c] =
                               [pc |-> "refused", token |-> refreshToken]]
               /\ result' = Failure("refreshToken", arg, status)
       IN  IF verified # "ok"
           THEN refused(verified)
           ELSE IF \A e \in FindByEmail(refreshToken.email) : ~users[e].isActive
           THEN refused("Unauthorized")
           ELSE \E e \in FindByEmail(refreshToken.email) :
                   IF \/ users[e].refreshToken = NoToken
                      \/ users[e].refreshToken # refreshToken
                   THEN refused("Unauthorized")
                   ELSE /\ calls' = [calls EXCEPT ![c] =
                               [pc |-> "writing", token |-> refreshToken, user |-> e,
                                tokens |-> [accessToken |->
                                                GenerateAccessToken(users[e], now),
                                            refreshToken |->
                                                GenerateRefreshToken(users[e], now)],
                                concurrent |-> inFlight]]
                        /\ UNCHANGED result
    /\ UNCHANGED <<catalogVars, now, previous, authVars>>

\* the database executes the updateRefreshToken of caller c and the request
\* returns the new pair
ExecuteUpdateRefreshToken(c) ==
    /\ calls[c].pc = "writing"
    /\ users' = [users EXCEPT ![calls[c].user].refreshToken =
                    calls[c].tokens.refreshToken]
    /\ calls' = [calls EXCEPT ![c].pc = "done"]
    /\ result' = Outcome("refreshToken", [token |-> calls[c].token], "ok",
                         calls[c].tokens, NoTrace)
    /\ UNCHANGED <<catalogVars, now, previous, blacklist, otpStore>>

\* registration, and refresh requests of concurrent callers, while time
\* passes
NextRefresh ==
    \/ Tick
    \/ \E dto \in RegisterDtos : \E emailSent \in BOOLEAN : Register(dto, emailSent)
    \/ \E c \in CallIds : \E token \in TokenInputs(now) : CallRefreshToken(c, token)
    \/ \E c \in CallIds : ExecuteUpdateRefreshToken(c)

SpecRefresh == Init /\ [][NextRefresh]_vars

(***************************************************************************)
(* OTPService: the store maps a lower-cased email to its entry.  Dates are *)
(* in milliseconds.                                                        *)
(***************************************************************************)
MAX_ATTEMPTS == 3

\* OTP_EXPIRY_MINUTES, in units of the clock
OtpExpiry == 2

\* the codes Math.random can yield, and those a client submits
OtpInputs == {"123456", "654321"}

\* new Date() when the clock shows t and ms milliseconds
DateAt(t, ms) == t * 1000 + ms

\* cleanupExpiredOTPs
CleanupExpiredOTPs(store, date) ==
    [email \in {e \in DOMAIN store : ~(store[e].expiresAt < date)} |-> store[email]]

\* the store after generateOTP(email) has drawn the code otp
GenerateEntry(store, email, otp, date) ==
    CleanupExpiredOTPs(
        Put(store, ToLowerCase(email),
            [otp |-> otp, email |-> ToLowerCase(email),
             expiresAt |-> date + OtpExpiry * 1000, attempts |-> 0]),
        date)

\* validateOTP that locks an entry out only above MAX_ATTEMPTS
ValidateEntryLenient(store, email, otp, date) ==
    LET key == ToLowerCase(email)
    IN  IF key \notin DOMAIN store
        THEN [store |-> store, isValid |-> FALSE, compared |-> FALSE, entry |-> <<>>,
              message |-> [text |-> "OTP not found or has expired"]]
        ELSE IF store[key].expiresAt < date
        THEN [store |-> Drop(store, key), isValid |-> FALSE, compared |-> FALSE,
              entry |-> <<store[key]>>, message |-> [text |-> "OTP has expired"]]
        ELSE IF store[key].attempts > MAX_ATTEMPTS
        THEN [store |-> Drop(store, key), isValid |-> FALSE, compared |-> FALSE,
              entry |-> <<store[key]>>,
              message |-> [text |-> "Maximum attempts exceeded"]]
        ELSE LET attempts == store[key].attempts + 1
                 counted == [store EXCEPT ![key].attempts = attempts]
             IN  IF store[key].otp # otp
                 THEN [store |-> counted, isValid |-> FALSE, compared |-> TRUE,
                       entry |-> <<store[key]>>,
                       message |-> [text |-> "Invalid OTP",
                                    remaining |-> MAX_ATTEMPTS - attempts + 1]]
                 ELSE [store |-> counted, isValid |-> TRUE, compared |-> TRUE,
                       entry |-> <<store[key]>>,
                       message |-> [text |-> "OTP verified successfully"]]

\* validateOTP(email, otp) at date: the store it leaves, the value returned
\* (isValid and the message, with the number the message states), the entry
\* it found and whether it compared the code
ValidateEntry(store, email, otp, date) ==
    LET key == ToLowerCase(email)
    IN  IF key \notin DOMAIN store
        THEN [store |-> store, isValid |-> FALSE, compared |-> FALSE, entry |-> <<>>,
              message |-> [text |-> "OTP not found or has expired"]]
        ELSE IF store[key].expiresAt < date
        THEN [store |-> Drop(store, key), isValid |-> FALSE, compared |-> FALSE,
              entry |-> <<store[key]>>, message |-> [text |-> "OTP has expired"]]
        ELSE IF store[key].attempts >= MAX_ATTEMPTS
        THEN [store |-> Drop(store, key), isValid |-> FALSE, compared |-> FALSE,
              entry |-> <<store[key]>>,
              message |-> [text |-> "Maximum attempts exceeded"]]
        ELSE LET attempts == store[key].attempts + 1
                 counted == [store EXCEPT ![key].attempts = attempts]
             IN  IF store[key].otp # otp
                 THEN [store |-> counted, isValid |-> FALSE, compared |-> TRUE,
                       entry |-> <<store[key]>>,
                       message |-> [text |-> "Invalid OTP",
                                    remaining |-> MAX_ATTEMPTS - attempts + 1]]
                 ELSE [store |-> counted, isValid |-> TRUE, compared |-> TRUE,
                       entry |-> <<store[key]>>,
                       message |-> [text |-> "OTP verified successfully"]]

\* generateOTP(email), Math.random yielding otp
GenerateOTP(email, otp, ms) ==
    /\ otpStore' = GenerateEntry(otpStore, email, otp, DateAt(now, ms))
    /\ result' = Outcome("generateOTP", [email |-> email, ms |-> ms], "ok",
                         [otp |-> otp], NoTrace)
    /\ UNCHANGED <<catalogVars, now, calls, previous, users, blacklist>>

\* validateOTP(email, otp)
ValidateOTP(email, otp, ms) ==
    /\ LET validated == ValidateEntry(otpStore, email, otp, DateAt(now, ms))
       IN  /\ otpStore' = validated.store
           /\ result' = Outcome("validateOTP", [email |-> email, otp |-> otp, ms |-> ms],
                                "ok",
                                [isValid |-> validated.isValid,
                                 message |-> validated.message],
                                [entry |-> validated.entry,
                                 compared |-> validated.compared])
    /\ UNCHANGED <<catalogVars, now, calls, previous, users, blacklist>>

\* invalidateOTP(email)
InvalidateOTP(email) ==
    /\ otpStore' = Drop(otpStore, ToLowerCase(email))
    /\ result' = Outcome("invalidateOTP", [email |-> email], "ok", [done |-> TRUE],
                         NoTrace)
    /\ UNCHANGED <<catalogVars, now, calls, previous, users, blacklist>>

\* codes generated, submitted and invalidated while time passes
NextOtp ==
    \/ Tick
    \/ \E email \in EmailInputs : \E otp \in OtpInputs : \E ms \in Millis :
          GenerateOTP(email, otp, ms)
    \/ \E email \in EmailInputs : \E otp \in OtpInputs : \E ms \in Millis :
          ValidateOTP(email, otp, ms)
    \/ \E email \in EmailInputs : InvalidateOTP(email)

SpecOtp == Init /\ [][NextOtp]_vars

\* product reads over discounts of every type and value that are created,
\* linked, switched off and on, and removed while time passes
Next ==
    \/ Tick
    \/ \E dto \in CreateProductDtos : CreateProduct(dto)
    \/ \E id \in ProductIds : FindOne(id)
    \/ \E slug \in SlugInputs : FindBySlugRead(slug)
    \/ FindAll
    \/ \E dto \in CreateDiscountDtos : CreateDiscount(dto)
    \/ \E id \in DiscountIds : \E dto \in UpdateDiscountDtos : UpdateDiscount(id, dto)
    \/ \E id \in DiscountIds : RemoveDiscount(id)
    \/ \E dto \in LinkDiscountDtos : LinkToProduct(dto)

Spec == Init /\ [][Next]_vars

\* the discount administration alone, over every pair of dates
NextDates ==
    \/ \E dto \in DatedDiscountDtos : CreateDiscount(dto)
    \/ \E id \in DiscountIds : \E dto \in DatedUpdateDtos : UpdateDiscount(id, dto)
    \/ \E id \in DiscountIds : RemoveDiscount(id)

SpecDates == Init /\ [][NextDates]_vars

\* product reads over discounts with and without a usage cap whose usage
\* count is incremented
NextUsage ==
    \/ Tick
    \/ \E dto \in CreateProductDtos : CreateProduct(dto)
    \/ \E id \in ProductIds : FindOne(id)
    \/ \E slug \in SlugInputs : FindBySlugRead(slug)
    \/ FindAll
    \/ \E dto \in CappedDiscountDtos : CreateDiscount(dto)
    \/ \E dto \in LinkDiscountDtos : LinkToProduct(dto)
    \/ \E id \in DiscountIds : IncrementUsageCount(id)

SpecUsage == Init /\ [][NextUsage]_vars

\* the administration of products, discounts and links, with the reads by id
NextLinks ==
    \/ \E dto \in CreateProductDtos : CreateProduct(dto)
    \/ \E id \in ProductIds : \E dto \in UpdateProductDtos : UpdateProduct(id, dto)
    \/ \E id \in ProductIds : RemoveProduct(id)
    \/ \E id \in ProductIds : FindOne(id)
    \/ \E dto \in LinkedDiscountDtos : CreateDiscount(dto)
    \/ \E id \in DiscountIds : \E dto \in UpdateDiscountDtos : UpdateDiscount(id, dto)
    \/ \E id \in DiscountIds : RemoveDiscount(id)
    \/ \E id \in DiscountIds : FindOneDiscount(id)
    \/ \E dto \in LinkDiscountDtos : LinkToProduct(dto)
    \/ \E dto \in LinkDiscountDtos : UnlinkFromProduct(dto.productId, dto.discountId)

SpecLinks == Init /\ [][NextLinks]_vars

\* reads by id, and reads repeated in the same state, over discounts whose
\* usage count is incremented
NextReads ==
    \/ Tick
    \/ \E dto \in CreateProductDtos : CreateProduct(dto)
    \/ \E dto \in LinkedDiscountDtos : CreateDiscount(dto)
    \/ \E dto \in LinkDiscountDtos : LinkToProduct(dto)
    \/ \E id \in DiscountIds : IncrementUsageCount(id)
    \/ \E id \in ProductIds : FindOne(id)
    \/ \E id \in ProductIds : FindOneAgain(id)

SpecReads == Init /\ [][NextReads]_vars

\* isDiscountValid over discounts with and without a usage cap that are
\* switched off and on, used and removed while time passes
NextValid ==
    \/ Tick
    \/ \E dto \in CappedDiscountDtos : CreateDiscount(dto)
    \/ \E id \in DiscountIds : \E dto \in UpdateDiscountDtos : UpdateDiscount(id, dto)
    \/ \E id \in DiscountIds : RemoveDiscount(id)
    \/ \E id \in DiscountIds : IncrementUsageCount(id)
    \/ \E id \in DiscountIds : IsDiscountValid(id)

SpecValid == Init /\ [][NextValid]_vars

\* the administration of products whose slugs and SKUs collide
NextCatalog ==
    \/ \E dto \in CatalogProductDtos : CreateProduct(dto)
    \/ \E id \in ProductIds : \E dto \in UpdateProductDtos : UpdateProduct(id, dto)
    \/ \E id \in ProductIds : RemoveProduct(id)

SpecCatalog == Init /\ [][NextCatalog]_vars

\* concurrent callers of incrementUsageCount on the discounts that exist
NextConcurrent ==
    \/ \E dto \in LinkedDiscountDtos : CreateDiscount(dto)
    \/ \E c \in CallIds : \E id \in DiscountIds : CallIncrementUsageCount(c, id)
    \/ \E c \in CallIds : ExecuteIncrement(c)

SpecConcurrent == Init /\ [][NextConcurrent]_vars

(***************************************************************************)
(* Vocabulary of the properties.                                           *)
(***************************************************************************)
ReadOps == {"findOne", "findBySlug", "findAll"}

\* the priced products of the response of the read that just ran, each with
\* what calculateProductPricing did for it
Reads ==
    IF result.op \in {"findOne", "findBySlug"} /\ result.status = "ok"
    THEN {[body |-> result.body, trace |-> result.trace[1]]}
    ELSE IF result.op = "findAll" /\ result.status = "ok"
    THEN {[body |-> result.body.data[i], trace |-> result.trace[i]] :
             i \in 1..Len(result.trace)}
    ELSE {}

Applied(r) ==
    IF "appliedDiscounts" \in DOMAIN r.body THEN r.body.appliedDiscounts ELSE <<>>

AppliedIds(r) == {Applied(r)[i].id : i \in 1..Len(Applied(r))}

\* the discount ids linked to a product by an active link
LinkedTo(productId) ==
    {l.discountId : l \in {k \in links : k.productId = productId /\ k.isActive}}

\* the validity rule of the discount at time t: active flag and date window
ActiveInWindow(id, t) ==
    /\ id \in DOMAIN discounts
    /\ discounts[id].isActive
    /\ discounts[id].startDate <= t
    /\ t <= discounts[id].endDate

\* the usage cap is set and reached
Exhausted(id) ==
    /\ discounts[id].maxUsageCount # NoMax
    /\ discounts[id].usageCount >= discounts[id].maxUsageCount

\* savings and candidate price, in hundredths, as the pricing rule states
\* them: p * (1 - v/100) for a percentage, max(0, p - v) for a fixed amount
RuleSavings(p, d) ==
    IF d.discountType = PERCENTAGE THEN p * d.value
    ELSE Hundred * (p - Max(0, p - d.value))

RulePrice(p, d) == Hundred * p - RuleSavings(p, d)

(***************************************************************************)
(* C1: a linked discount whose usage cap is reached is never applied by a  *)
(* product read, and a product whose only linked discount is exhausted is  *)
(* priced at basePrice.                                                    *)
(***************************************************************************)
C1_ExhaustedDiscountExcluded ==
    \A r \in Reads :
        /\ \A id \in AppliedIds(r) : ~Exhausted(id)
        /\ (/\ Cardinality(LinkedTo(r.body.id)) = 1
            /\ \A id \in LinkedTo(r.body.id) : id \in DOMAIN discounts /\ Exhausted(id))
           => r.body.finalPrice = Hundred * r.body.basePrice

(***************************************************************************)
(* C2: in every product read an applied discount is active and its window  *)
(* contains the time of the read, finalPrice differs from basePrice only   *)
(* through such a discount, and a discount read at startDate or at endDate *)
(* is inside its window.                                                   *)
(***************************************************************************)
C2_OnlyActiveInWindowApplied ==
    \A r \in Reads :
        /\ \A id \in AppliedIds(r) : ActiveInWindow(id, result.at)
        /\ r.body.finalPrice # Hundred * r.body.basePrice
           => \E id \in AppliedIds(r) :
                 /\ ActiveInWindow(id, result.at)
                 /\ r.body.finalPrice = RulePrice(r.body.basePrice, discounts[id])
        /\ \A id \in LinkedTo(r.body.id) :
              (/\ id \in DOMAIN discounts
               /\ discounts[id].isActive
               /\ result.at \in {discounts[id].startDate, discounts[id].endDate}
               /\ RuleSavings(r.body.basePrice, discounts[id]) > 0)
              => AppliedIds(r) # {}

\* a read at a time before the window of one linked discount while another
\* linked discount is switched off
C2_Witness ==
    \E r \in Reads :
        /\ r.body.basePrice > 0
        /\ \E a, b \in LinkedTo(r.body.id) :
              /\ a \in DOMAIN discounts /\ b \in DOMAIN discounts
              /\ ~discounts[a].isActive
              /\ discounts[b].isActive
              /\ result.at < discounts[b].startDate
        /\ AppliedIds(r) = {}

(***************************************************************************)
(* C3: the applied discount has maximal savings among the linked discounts *)
(* that are active and in their window: of two such discounts with savings *)
(* S1 < S2 the one yielding S1 is never applied, in whatever order the     *)
(* links are returned.                                                     *)
(***************************************************************************)
C3_MaximalSavingsApplied ==
    \A r \in Reads :
        \A a, b \in LinkedTo(r.body.id) :
            (/\ ActiveInWindow(a, result.at)
             /\ ActiveInWindow(b, result.at)
             /\ RuleSavings(r.body.basePrice, discounts[a])
                   < RuleSavings(r.body.basePrice, discounts[b]))
            => /\ a \notin AppliedIds(r)
               /\ \E id \in AppliedIds(r) :
                     RuleSavings(r.body.basePrice, discounts[id])
                        >= RuleSavings(r.body.basePrice, discounts[b])

\* a read whose links came back with the better discount first
C3_Witness ==
    \E r \in Reads :
        /\ Len(r.trace.order) = 2
        /\ LET b == r.trace.order[1].discountId
               a == r.trace.order[2].discountId
           IN  /\ ActiveInWindow(a, result.at)
               /\ ActiveInWindow(b, result.at)
               /\ 0 < RuleSavings(r.body.basePrice, discounts[a])
               /\ RuleSavings(r.body.basePrice, discounts[a])
                     < RuleSavings(r.body.basePrice, discounts[b])
               /\ AppliedIds(r) = {b}

(***************************************************************************)
(* C4: a product without active links is priced at basePrice, with no      *)
(* applied discount and without a call of the discount repository.         *)
(***************************************************************************)
C4_NoLinksBasePrice ==
    \A r \in Reads :
        LinkedTo(r.body.id) = {}
        => /\ r.body.finalPrice = Hundred * r.body.basePrice
           /\ "appliedDiscounts" \notin DOMAIN r.body
           /\ r.trace.discountFetches = <<>>

\* a read of a product without links while another product id is linked to
\* a discount that would lower the price
C4_Witness ==
    \E r \in Reads :
        /\ LinkedTo(r.body.id) = {}
        /\ r.body.basePrice > 0
        /\ \E l \in links :
              /\ l.productId # r.body.id
              /\ ActiveInWindow(l.discountId, result.at)

(***************************************************************************)
(* C5: discounts never stack: a product read applies at most one discount, *)
(* finalPrice is the candidate price of that discount, and basePrice when  *)
(* none is applied.                                                        *)
(***************************************************************************)
C5_NeverStack ==
    \A r \in Reads :
        /\ Len(Applied(r)) <= 1
        /\ Len(Applied(r)) = 0 => r.body.finalPrice = Hundred * r.body.basePrice
        /\ Len(Applied(r)) = 1
           => /\ Applied(r)[1].id \in LinkedTo(r.body.id)
              /\ Applied(r)[1].id \in DOMAIN discounts
              /\ Applied(r)[1].discountType = discounts[Applied(r)[1].id].discountType
              /\ Applied(r)[1].value = discounts[Applied(r)[1].id].value
              /\ r.body.finalPrice = RulePrice(r.body.basePrice, discounts[Applied(r)[1].id])

\* a read over two linked discounts that both lower the price
C5_Witness ==
    \E r \in Reads :
        /\ Len(Applied(r)) = 1
        /\ \E a, b \in LinkedTo(r.body.id) :
              /\ a # b
              /\ ActiveInWindow(a, result.at)
              /\ ActiveInWindow(b, result.at)
              /\ RuleSavings(r.body.basePrice, discounts[a]) > 0
              /\ RuleSavings(r.body.basePrice, discounts[b]) > 0

(***************************************************************************)
(* C6, as stated: in the response of a product read finalPrice is present  *)
(* only if a discount was applied, and is left out when none applies.      *)
(***************************************************************************)
C6_FinalPriceOnlyWhenApplied ==
    \A r \in Reads :
        "finalPrice" \in DOMAIN r.body <=> "appliedDiscounts" \in DOMAIN r.body

(***************************************************************************)
(* C6, amended: finalPrice is present in the response of every product     *)
(* read and equals basePrice when no discount applies; appliedDiscounts is *)
(* the field that is present only if a discount was applied.               *)
(***************************************************************************)
C6_FinalPriceAlwaysPresent ==
    \A r \in Reads :
        /\ "finalPrice" \in DOMAIN r.body
        /\ "appliedDiscounts" \in DOMAIN r.body
              <=> \E id \in LinkedTo(r.body.id) :
                     /\ ActiveInWindow(id, result.at)
                     /\ RuleSavings(r.body.basePrice, discounts[id]) > 0
        /\ "appliedDiscounts" \notin DOMAIN r.body
              => r.body.finalPrice = Hundred * r.body.basePrice

\* a read of a linked product to which no discount applies
C6_Witness ==
    \E r \in Reads :
        /\ LinkedTo(r.body.id) # {}
        /\ "appliedDiscounts" \notin DOMAIN r.body
        /\ "finalPrice" \in DOMAIN r.body

(***************************************************************************)
(* C7: after any sequence of DiscountsService.create and update calls      *)
(* every stored discount has startDate < endDate.                          *)
(***************************************************************************)
C7_StoredDatesOrdered ==
    \A id \in DOMAIN discounts : discounts[id].startDate < discounts[id].endDate

(***************************************************************************)
(* C8: DiscountsService.create with startDate >= endDate is rejected with  *)
(* a validation error (bad request, or conflict when the code is taken)    *)
(* and leaves every store as it was: no discount record is created.        *)
(***************************************************************************)
C8_InvalidCreateRejected ==
    [][(/\ result'.op = "createDiscount"
        /\ result'.arg.startDate >= result'.arg.endDate)
       => /\ result'.status \in {"BadRequest", "Conflict"}
          /\ discounts' = discounts
          /\ nextDiscount' = nextDiscount
          /\ links' = links
          /\ products' = products]_vars

\* a create with equal dates was rejected while a discount is stored
C8_Witness ==
    /\ result.op = "createDiscount"
    /\ result.arg.startDate = result.arg.endDate
    /\ result.status = "BadRequest"
    /\ DOMAIN discounts # {}

(***************************************************************************)
(* C9: a link whose discount record is gone is left out of the pricing:    *)
(* the read of an existing product does not fail, never applies a missing  *)
(* discount, and returns basePrice with no applied discount when no other  *)
(* linked discount is active and in its window.                            *)
(***************************************************************************)
C9_OrphanLinkExcluded ==
    /\ (result.op = "findOne" /\ result.arg.id \in DOMAIN products)
          => result.status = "ok"
    /\ (result.op = "findBySlug" /\ FindBySlug(result.arg.slug) # {})
          => result.status = "ok"
    /\ result.op = "findAll" => result.status = "ok"
    /\ \A r \in Reads :
          /\ AppliedIds(r) \subseteq DOMAIN discounts
          /\ (\A id \in LinkedTo(r.body.id) : ~ActiveInWindow(id, result.at))
             => /\ r.body.finalPrice = Hundred * r.body.basePrice
                /\ "appliedDiscounts" \notin DOMAIN r.body

\* a read of a product whose only link points to a removed discount
C9_Witness ==
    \E r \in Reads :
        /\ r.body.basePrice > 0
        /\ LinkedTo(r.body.id) # {}
        /\ LinkedTo(r.body.id) \cap DOMAIN discounts = {}
        /\ r.trace.discountFetches # <<>>
        /\ r.body.finalPrice = Hundred * r.body.basePrice

(***************************************************************************)
(* C10: the candidate price the loop computes for a percentage discount of *)
(* value v on basePrice p is p * (1 - v/100), that is p * (100 - v)        *)
(* hundredths, and it is not negative when v is in 0..100.                 *)
(***************************************************************************)
C10_PercentagePrice ==
    \A r \in Reads :
        \A i \in 1..Len(r.trace.candidates) :
            LET c == r.trace.candidates[i]
            IN  c.discountType = PERCENTAGE
                => /\ c.discountedPrice = Hundred * r.body.basePrice - r.body.basePrice * c.value
                   /\ c.value \in 0..Hundred => c.discountedPrice >= 0

\* a read that computed the price of a percentage of 100 and of one below
C10_Witness ==
    \E r \in Reads :
        /\ r.body.basePrice > 0
        /\ \E i, j \in 1..Len(r.trace.candidates) :
              /\ r.trace.candidates[i].discountType = PERCENTAGE
              /\ r.trace.candidates[i].value = Hundred
              /\ r.trace.candidates[i].discountedPrice = 0
              /\ r.trace.candidates[j].discountType = PERCENTAGE
              /\ r.trace.candidates[j].value < Hundred
              /\ r.trace.candidates[j].discountedPrice > 0

(***************************************************************************)
(* C11: the candidate price the loop computes for a fixed-amount discount  *)
(* of value v on basePrice p is max(0, p - v): it is p - v when v < p, 0   *)
(* when v >= p, and never negative.                                        *)
(***************************************************************************)
C11_FixedAmountFloored ==
    \A r \in Reads :
        /\ \A i \in 1..Len(Applied(r)) :
              Applied(r)[i].discountType = FIXED_AMOUNT => r.body.finalPrice >= 0
        /\ \A i \in 1..Len(r.trace.candidates) :
              LET c == r.trace.candidates[i]
                  p == r.body.basePrice
              IN  c.discountType = FIXED_AMOUNT
                  => /\ c.discountedPrice >= 0
                     /\ c.value >= p => c.discountedPrice = 0
                     /\ c.value < p => c.discountedPrice = Hundred * (p - c.value)

\* a read that applied a fixed amount above the base price, and computed the
\* price of a fixed amount below it
C11_Witness ==
    \E r \in Reads :
        /\ r.body.basePrice > 0
        /\ r.body.finalPrice = 0
        /\ Len(Applied(r)) = 1
        /\ Applied(r)[1].discountType = FIXED_AMOUNT
        /\ Applied(r)[1].value > r.body.basePrice
        /\ \E j \in 1..Len(r.trace.candidates) :
              /\ r.trace.candidates[j].discountType = FIXED_AMOUNT
              /\ r.trace.candidates[j].value < r.body.basePrice
              /\ r.trace.candidates[j].discountedPrice > 0

(***************************************************************************)
(* C12: the link store never holds two records for one (productId,         *)
(* discountId) pair, whatever sequence of linkToProduct and                *)
(* unlinkFromProduct calls ran: a linkToProduct for a linked pair adds no  *)
(* record.                                                                 *)
(***************************************************************************)
C12_OneLinkPerPair ==
    /\ \A l1, l2 \in links :
          (l1.productId = l2.productId /\ l1.discountId = l2.discountId) => l1 = l2
    /\ (result.op = "linkToProduct" /\ result.status = "ok")
          => Cardinality({l \in links : /\ l.productId = result.arg.productId
                                        /\ l.discountId = result.arg.discountId}) = 1

\* a linkToProduct for a pair that is linked was refused, the discount being
\* stored
C12_Witness ==
    /\ result.op = "linkToProduct"
    /\ result.status = "DuplicateKey"
    /\ result.arg.discountId \in DOMAIN discounts
    /\ \E l \in links : /\ l.productId = result.arg.productId
                        /\ l.discountId = result.arg.discountId

(***************************************************************************)
(* C13: unlinkFromProduct(productId, discountId) removes the link record   *)
(* of the pair and reports success when the pair is linked, and reports    *)
(* not-found and leaves the link store as it was when it is not.           *)
(***************************************************************************)
C13_UnlinkRemovesPair ==
    [][result'.op = "unlinkFromProduct"
       => LET pair == {l \in links : /\ l.productId = result'.arg.productId
                                     /\ l.discountId = result'.arg.discountId}
          IN  IF pair # {}
              THEN /\ result'.status = "ok"
                   /\ \E l \in pair : links' = links \ {l}
              ELSE /\ result'.status = "NotFound"
                   /\ links' = links]_vars

(***************************************************************************)
(* C14: an operation given the id of a product or discount that has no     *)
(* record fails with not-found and changes no store: findOne, update and   *)
(* remove of a product, findOne, update and remove of a discount, and      *)
(* linkToProduct for a missing discount, which creates no link.            *)
(***************************************************************************)
C14_NotFoundChangesNothing ==
    [][(\/ /\ result'.op \in {"findOne", "removeProduct", "updateProduct"}
           /\ result'.arg.id \notin DOMAIN products
        \/ /\ result'.op \in {"findOneDiscount", "removeDiscount", "updateDiscount"}
           /\ result'.arg.id \notin DOMAIN discounts
        \/ /\ result'.op = "linkToProduct"
           /\ result'.arg.discountId \notin DOMAIN discounts)
       => /\ result'.status = "NotFound"
          /\ products' = products
          /\ discounts' = discounts
          /\ links' = links
          /\ nextProduct' = nextProduct
          /\ nextDiscount' = nextDiscount]_vars

\* a linkToProduct for a removed discount failed while a product, a discount
\* and a link are stored
C14_Witness ==
    /\ result.op = "linkToProduct"
    /\ result.status = "NotFound"
    /\ result.arg.discountId \notin DOMAIN discounts
    /\ nextDiscount > 1
    /\ DOMAIN products # {}
    /\ DOMAIN discounts # {}
    /\ links # {}

(***************************************************************************)
(* C15: the removal of a product or of a discount leaves the link store as *)
(* it was and deletes that one record only: the links that referenced it   *)
(* stay, as orphans.                                                       *)
(***************************************************************************)
C15_RemoveKeepsLinks ==
    [][/\ result'.op = "removeProduct"
          => /\ links' = links
             /\ discounts' = discounts
             /\ result'.status = "ok"
                => /\ result'.arg.id \in DOMAIN products
                   /\ DOMAIN products' = DOMAIN products \ {result'.arg.id}
                   /\ \A id \in DOMAIN products' : products'[id] = products[id]
       /\ result'.op = "removeDiscount"
          => /\ links' = links
             /\ products' = products
             /\ result'.status = "ok"
                => /\ result'.arg.id \in DOMAIN discounts
                   /\ DOMAIN discounts' = DOMAIN discounts \ {result'.arg.id}
                   /\ \A id \in DOMAIN discounts' : discounts'[id] = discounts[id]]_vars

\* a discount was removed and a link that references it is still stored
C15_Witness ==
    /\ result.op = "removeDiscount"
    /\ result.status = "ok"
    /\ result.arg.id \notin DOMAIN discounts
    /\ \E l \in links : l.discountId = result.arg.id

(***************************************************************************)
(* C16: incrementUsageCount is one atomic increment in the database: in    *)
(* every interleaving of concurrent calls the usageCount of a discount is  *)
(* its initial value, 0, plus the number of calls on it that the database  *)
(* has executed, so that N calls leave it at the initial value plus N.     *)
(***************************************************************************)
C16_NoLostIncrement ==
    \A id \in DOMAIN discounts :
        discounts[id].usageCount =
            Cardinality({c \in CallIds : calls[c].pc = "done" /\ calls[c].id = id})

\* every caller has called for the same discount before the database
\* executed any of the commands, and all of them are executed
C16_Witness ==
    \E id \in DOMAIN discounts :
        /\ \A c \in CallIds : /\ calls[c].pc = "done"
                              /\ calls[c].id = id
                              /\ calls[c].read = 0
        /\ discounts[id].usageCount = MaxCalls

C18_IsDiscountValid ==
    [][result'.op = "isDiscountValid"
       => /\ result'.status = "ok"
          /\ result'.body.valid \in BOOLEAN
          /\ result'.body.valid
             <=> /\ result'.arg.id \in DOMAIN discounts
                 /\ discounts[result'.arg.id].isActive
                 /\ discounts[result'.arg.id].startDate <= now
                 /\ now <= discounts[result'.arg.id].endDate
                 /\ \/ discounts[result'.arg.id].maxUsageCount = NoMax
                    \/ discounts[result'.arg.id].usageCount
                          < discounts[result'.arg.id].maxUsageCount
          /\ products' = products
          /\ discounts' = discounts
          /\ links' = links
          /\ now' = now]_vars

\* isDiscountValid returned false for an active discount inside its window
\* whose usage cap is reached
C18_Witness ==
    /\ result.op = "isDiscountValid"
    /\ ~result.body.valid
    /\ result.arg.id \in DOMAIN discounts
    /\ discounts[result.arg.id].isActive
    /\ discounts[result.arg.id].startDate <= result.at
    /\ result.at <= discounts[result.arg.id].endDate
    /\ discounts[result.arg.id].maxUsageCount # NoMax
    /\ discounts[result.arg.id].usageCount >= discounts[result.arg.id].maxUsageCount

(***************************************************************************)
(* C19: ProductsService.create with a SKU that, upper-cased, is the SKU of *)
(* a stored product, or with a slug that, lower-cased, is the slug of a    *)
(* stored product, fails with a conflict and stores no product; the SKU is *)
(* checked first, so the conflict names the SKU when both are taken.       *)
(***************************************************************************)
C19_CreateProductConflicts ==
    [][result'.op = "createProduct"
       => LET skuTaken == \E id \in DOMAIN products :
                             products[id].sku = ToUpperCase(result'.arg.sku)
              slugTaken == \E id \in DOMAIN products :
                              products[id].slug = ToLowerCase(result'.arg.slug)
          IN  /\ (skuTaken \/ slugTaken)
                 => /\ result'.status = "Conflict"
                    /\ products' = products
                    /\ nextProduct' = nextProduct
              /\ skuTaken => result'.body.field = "sku"
              /\ (~skuTaken /\ slugTaken) => result'.body.field = "slug"
              /\ ~(skuTaken \/ slugTaken) => result'.status = "ok"]_vars

\* a create whose SKU differs in case from a stored one, and whose slug is
\* taken too, was refused for its SKU
C19_Witness ==
    /\ result.op = "createProduct"
    /\ result.status = "Conflict"
    /\ result.body.field = "sku"
    /\ \E id \in DOMAIN products :
          /\ products[id].sku # result.arg.sku
          /\ products[id].sku = ToUpperCase(result.arg.sku)
    /\ \E id \in DOMAIN products :
          /\ products[id].slug # result.arg.slug
          /\ products[id].slug = ToLowerCase(result.arg.slug)

(***************************************************************************)
(* C20: a successful logout clears the stored refresh token of the user;   *)
(* while no token is stored every refreshToken call for that user is       *)
(* rejected and changes nothing, whatever token it presents, and a token   *)
(* is stored again only by a successful login.                             *)
(***************************************************************************)
C20_LogoutClearsRefreshToken ==
    [][/\ (result'.op = "logout" /\ result'.status = "ok")
          => /\ result'.body.success
             /\ \E e \in DOMAIN users' : users'[e].id = result'.arg.token.sub
             /\ \A e \in DOMAIN users' :
                   users'[e].id = result'.arg.token.sub
                   => users'[e].refreshToken = NoToken
       /\ (/\ result'.op = "refreshToken"
           /\ \A e \in DOMAIN users :
                 users[e].email = result'.arg.token.email
                 => users[e].refreshToken = NoToken)
          => /\ result'.status # "ok"
             /\ users' = users
       /\ \A e \in DOMAIN users :
             (/\ users[e].refreshToken = NoToken
              /\ e \in DOMAIN users'
              /\ users'[e].refreshToken # NoToken)
             => /\ result'.op = "login"
                /\ result'.status = "ok"]_vars

\* after a logout, a refreshToken call that presented the unexpired refresh
\* token issued together with the blacklisted access token was rejected
C20_Witness ==
    /\ result.op = "refreshToken"
    /\ result.status = "Unauthorized"
    /\ result.arg.token.kind = "refresh"
    /\ result.at < result.arg.token.exp
    /\ \E e \in DOMAIN users :
          /\ users[e].email = result.arg.token.email
          /\ users[e].refreshToken = NoToken
    /\ \E entry \in blacklist :
          /\ entry.token.sub = result.arg.token.sub
          /\ entry.token.iat = result.arg.token.iat

(***************************************************************************)
(* C21: refresh tokens rotate.  A successful refreshToken presented the    *)
(* stored token and stores the token it issues, and the token that was     *)
(* just used is no longer the stored one, so that presenting it again is   *)
(* rejected.                                                               *)
(***************************************************************************)
C21_RefreshTokenRotates ==
    [][(result'.op = "refreshToken" /\ result'.status = "ok")
       => \E e \in DOMAIN users :
             /\ users[e].email = result'.arg.token.email
             /\ users[e].refreshToken = result'.arg.token
             /\ users'[e].refreshToken = result'.body.refreshToken
             /\ users'[e].refreshToken # result'.arg.token]_vars

\* logout has just blacklisted the token / a guarded request with the token
\* has just been admitted
LoggedOut(token) ==
    result.op = "logout" /\ result.status = "ok" /\ result.arg.token = token
Accepted(token) ==
    result.op = "validate" /\ result.status = "ok" /\ result.arg.token = token

RoleLevel(role) == IF role = "admin" THEN 2 ELSE IF role = "user" THEN 1 ELSE 0

(* C23: for a handler that declares required roles the roles guard grants  *)
(* access exactly when the request has a user whose role is one of the     *)
(* required roles or ranks at least as high as one of them, and otherwise  *)
(* throws Forbidden; on the ADMIN-only operations a USER is refused and an *)
(* ADMIN admitted.                                                         *)
C23_RolesGuard ==
    (result.op = "canActivate" /\ result.arg.handler.roles # NoRoles)
    => LET required == result.arg.handler.roles
           user == result.arg.user
           entitled ==
               /\ user # NoUser
               /\ \E i \in 1..Len(required) :
                     \/ user.role = required[i]
                     \/ RoleLevel(user.role) >= RoleLevel(required[i])
       IN  /\ result.status = (IF entitled THEN "ok" ELSE "Forbidden")
           /\ result.arg.handler.adminOnly
              => /\ user.role = "user" => result.status = "Forbidden"
                 /\ user.role = "admin" => result.status = "ok"

\* a USER has been refused on the creation of a discount
C23_Witness ==
    /\ result.op = "canActivate"
    /\ result.arg.handler.name = "discounts.create"
    /\ result.arg.user.role = "user"
    /\ result.status = "Forbidden"

(* C24: among the valid linked discounts of a product the one applied is   *)
(* the earliest, in the order the links were fetched, of those with the    *)
(* greatest savings: every valid discount fetched before it saves strictly *)
(* less, and none fetched after it saves more.                             *)
C24_TiesKeepEarliest ==
    \A r \in Reads :
        Len(Applied(r)) = 1
        => LET order == r.trace.order
               Valid(k) == ActiveInWindow(order[k].discountId, result.at)
               Savings(k) == RuleSavings(r.body.basePrice, discounts[order[k].discountId])
           IN  \E i \in 1..Len(order) :
                  /\ order[i].discountId = Applied(r)[1].id
                  /\ Valid(i)
                  /\ \A j \in 1..Len(order) :
                        Valid(j) => /\ Savings(j) <= Savings(i)
                                    /\ j < i => Savings(j) < Savings(i)

\* a read over two valid discounts with the same savings, the first of which
\* is applied
C24_Witness ==
    \E r \in Reads :
        /\ Len(Applied(r)) = 1
        /\ LET order == r.trace.order
           IN  /\ Len(order) = 2
               /\ order[1].discountId = Applied(r)[1].id
               /\ ActiveInWindow(order[1].discountId, result.at)
               /\ ActiveInWindow(order[2].discountId, result.at)
               /\ RuleSavings(r.body.basePrice, discounts[order[1].discountId]) > 0
               /\ RuleSavings(r.body.basePrice, discounts[order[1].discountId])
                  = RuleSavings(r.body.basePrice, discounts[order[2].discountId])

(* C25: for every product and every discount the service has accepted, the *)
(* finalPrice a product read returns lies between 0 and basePrice.         *)
C25_FinalPriceWithinBounds ==
    \A r \in Reads :
        /\ 0 <= r.body.finalPrice
        /\ r.body.finalPrice <= Hundred * r.body.basePrice

(* C26: of two concurrent refreshToken requests that present the same      *)
(* refresh token (the second is received while the first is between its    *)
(* check and its update) at most one succeeds.                             *)
C26_RefreshTokenRedeemedOnce ==
    \A c1, c2 \in CallIds :
        (/\ c1 # c2
         /\ calls[c1].pc = "done"
         /\ calls[c2].pc = "done"
         /\ calls[c1].token = calls[c2].token)
        => c1 \notin calls[c2].concurrent

(* C27: for one generated OTP validateOTP compares a submitted code at     *)
(* most 3 times, successful validations included: a call compares only an  *)
(* entry with fewer than 3 counted attempts and counts one more; a call    *)
(* that finds 3 attempts counted deletes the entry and fails, also with    *)
(* the right code; generateOTP replaces the entry of the email by one with *)
(* the new code and 0 attempts; nothing else changes a count.              *)
C27_AttemptsBounded ==
    [][/\ (result'.op = "validateOTP" /\ result'.trace.compared)
          => LET key == ToLowerCase(result'.arg.email)
             IN  /\ key \in DOMAIN otpStore
                 /\ otpStore[key].attempts < 3
                 /\ key \in DOMAIN otpStore'
                 /\ otpStore'[key].attempts = otpStore[key].attempts + 1
                 /\ otpStore'[key].otp = otpStore[key].otp
       /\ (result'.op = "validateOTP" /\ ~result'.trace.compared)
          => /\ ~result'.body.isValid
             /\ \A e \in DOMAIN otpStore' : otpStore'[e] = otpStore[e]
       /\ (/\ result'.op = "validateOTP"
           /\ ToLowerCase(result'.arg.email) \in DOMAIN otpStore
           /\ otpStore[ToLowerCase(result'.arg.email)].attempts >= 3)
          => /\ ToLowerCase(result'.arg.email) \notin DOMAIN otpStore'
             /\ ~result'.body.isValid
       /\ result'.op = "generateOTP"
          => LET key == ToLowerCase(result'.arg.email)
             IN  /\ key \in DOMAIN otpStore'
                 /\ otpStore'[key].otp = result'.body.otp
                 /\ otpStore'[key].attempts = 0
       /\ result'.op \notin {"validateOTP", "generateOTP"}
          => \A e \in DOMAIN otpStore' : otpStore'[e] = otpStore[e]]_vars

\* the right code has been submitted for an entry with 3 counted attempts,
\* and refused
C27_Witness ==
    /\ result.op = "validateOTP"
    /\ result.body.message.text = "Maximum attempts exceeded"
    /\ result.trace.entry[1].otp = result.arg.otp
    /\ result.trace.entry[1].attempts = 3
    /\ ~result.body.isValid

\* the number of further validateOTP calls for the entry of email whose code
\* is compared, at most fuel of them
RECURSIVE ComparisonsLeft(_, _, _, _)
ComparisonsLeft(store, email, date, fuel) ==
    LET next == ValidateEntry(store, email, "000000", date)
    IN  IF fuel = 0 \/ ~next.compared THEN 0
        ELSE 1 + ComparisonsLeft(next.store, email, date, fuel - 1)

(* C28: after a validateOTP that fails on a wrong code, the number of      *)
(* attempts remaining that the message states is the number of further     *)
(* validateOTP calls for that OTP whose code is still compared.            *)
C28_RemainingAttemptsStated ==
    (/\ result.op = "validateOTP"
     /\ "remaining" \in DOMAIN result.body.message)
    => result.body.message.remaining
       = ComparisonsLeft(otpStore, result.arg.email,
                         DateAt(result.at, result.arg.ms), 5)

(* C29: a register call that raises an error leaves the user store as it   *)
(* was: no user record has been created by the call.                       *)
C29_FailedRegisterLeavesUsers ==
    [][(result'.op = "register" /\ result'.status # "ok") => users' = users]_vars

(* C30: an update raises a uniqueness conflict only when a different       *)
(* record holds the value: updating a product with a slug, or a discount   *)
(* with a code, conflicts only if another record has that slug or code,    *)
(* and succeeds when the value is the one the record itself already has.   *)
C30_ConflictOnlyWithAnotherRecord ==
    [][/\ (result'.op = "updateProduct" /\ result'.status = "Conflict")
          => \E other \in DOMAIN products :
                /\ other # result'.arg.id
                /\ products[other].slug = ToLowerCase(result'.arg.dto.slug)
       /\ (result'.op = "updateDiscount" /\ result'.status = "Conflict")
          => \E other \in DOMAIN discounts :
                /\ other # result'.arg.id
                /\ discounts[other].code = ToUpperCase(result'.arg.dto.code)]_vars

====
